---- MODULE Spec2Model ----
(***************************************************************************)
(* Model of src/main.py: SimpleDictReader, SimpleDictWriter, DataExtractor *)
(* and process_extraction_info.                                            *)
(*                                                                         *)
(* Representation of Python values:                                        *)
(*   str            a sequence of characters; a character is a one-element *)
(*                  TLA+ string, or the name of a code point ("u201C")     *)
(*   list           a sequence                                             *)
(*   dict           an association list <<key, value>> in insertion order  *)
(*   Optional[x]    NoneVal (the empty tuple) or Some(x) (a 1-tuple)       *)
(*   an exception   fault /= "none"; the raising operation stops there     *)
(***************************************************************************)
EXTENDS Naturals, Sequences, FiniteSets

VARIABLES
    pc,                 \* position of the running entry point
    fault,              \* "none", or the exception that unwound the run
    line,               \* reader/writer: the raw line handed to _parse_row
    fieldnames,         \* reader/writer: the schema of both objects
    row,                \* reader/writer: the dict _parse_row returned
    formatted,          \* reader/writer: the text writerow wrote
    files,              \* contents of the input files, one per path
    sample_file,        \* contents of the seed reference file
    main_key_column,    \* data["main"]: the seed key column
    extraction_info,    \* the stage descriptors (key_column, relevant_keys)
    de_codes,           \* data_extractor.codes (Optional[list])
    de_relevant_keys,   \* data_extractor.relevant_keys (dict)
    codes,              \* the last value extract_data returned (Optional[dict])
    outputs,            \* contents of the output files written so far
    used,               \* data_extractor.codes at each extract_data call
    idx                 \* index of the next stage of the loop

vars == <<pc, fault, line, fieldnames, row, formatted, files, sample_file,
          main_key_column, extraction_info, de_codes, de_relevant_keys,
          codes, outputs, used, idx>>

----------------------------------------------------------------------------
(* Bounds of the model *)

MaxLineLen == 3
MaxRows == 2
MaxStages == 3
MaxPreFiles == 2
MaxPreLines == 2

----------------------------------------------------------------------------
(* Python values *)

NoneVal == <<>>
Some(x) == <<x>>
IsNone(o) == Len(o) = 0
Val(o) == o[1]

NL == "\n"
COMMA == ","
DQ == "\""
Whitespace == {" ", "\n", "\r", "\t"}

InSeq(x, s) == \E k \in 1..Len(s) : s[k] = x

RECURSIVE SeqsUpTo(_, _)
SeqsUpTo(S, n) ==
    IF n = 0 THEN {<<>>}
    ELSE LET shorter == SeqsUpTo(S, n - 1)
         IN  shorter \cup {Append(s, x) : s \in shorter, x \in S}

\* str.rstrip('\n')
RECURSIVE RStripNL(_)
RStripNL(s) ==
    IF Len(s) > 0 /\ s[Len(s)] = NL THEN RStripNL(SubSeq(s, 1, Len(s) - 1))
    ELSE s

RECURSIVE LStripWs(_)
LStripWs(s) ==
    IF Len(s) > 0 /\ s[1] \in Whitespace THEN LStripWs(Tail(s)) ELSE s

RECURSIVE RStripWs(_)
RStripWs(s) ==
    IF Len(s) > 0 /\ s[Len(s)] \in Whitespace
    THEN RStripWs(SubSeq(s, 1, Len(s) - 1))
    ELSE s

\* str.strip()
Strip(s) == LStripWs(RStripWs(s))

\* str.split(d) for a one-character delimiter: never empty, '' gives ['']
RECURSIVE Split(_, _)
Split(s, d) ==
    IF ~InSeq(d, s) THEN <<s>>
    ELSE LET k == CHOOSE j \in 1..Len(s) :
                      s[j] = d /\ \A m \in 1..(j - 1) : s[m] # d
         IN  <<SubSeq(s, 1, k - 1)>> \o Split(SubSeq(s, k + 1, Len(s)), d)

\* d.join(parts)
RECURSIVE Join(_, _)
Join(parts, d) ==
    IF Len(parts) = 0 THEN <<>>
    ELSE IF Len(parts) = 1 THEN parts[1]
    ELSE parts[1] \o <<d>> \o Join(Tail(parts), d)

\* dict operations on association lists
DictHas(d, k) == \E j \in 1..Len(d) : d[j][1] = k
DictGet(d, k) == d[CHOOSE j \in 1..Len(d) : d[j][1] = k][2]
DictPut(d, k, v) ==
    IF DictHas(d, k)
    THEN [j \in 1..Len(d) |-> IF d[j][1] = k THEN <<k, v>> ELSE d[j]]
    ELSE Append(d, <<k, v>>)

\* dict.get(k): None when the key is absent
DictGetOpt(d, k) == IF DictHas(d, k) THEN Some(DictGet(d, k)) ELSE NoneVal

\* dict(zip(keys, values)): pairs up to the shorter of the two
RECURSIVE ZipDict(_, _)
ZipDict(keys, values) ==
    IF Len(keys) = 0 \/ Len(values) = 0 THEN <<>>
    ELSE LET n == IF Len(keys) < Len(values) THEN Len(keys) ELSE Len(values)
         IN  DictPut(ZipDict(SubSeq(keys, 1, n - 1), SubSeq(values, 1, n - 1)),
                     keys[n], values[n])

----------------------------------------------------------------------------
(* SimpleDictReader and SimpleDictWriter *)

\* SimpleDictReader._parse_row
ParseRow(names, text) == ZipDict(names, Split(RStripNL(text), COMMA))

\* One element of the list comprehension of _format_row
FormatValue(v) == IF ~InSeq(DQ, v) THEN <<DQ>> \o v \o <<DQ>> ELSE v

\* SimpleDictWriter._format_row: row[field] raises KeyError on an absent field
FormatRow(names, r) ==
    IF \E k \in 1..Len(names) : ~DictHas(r, names[k])
    THEN [fault |-> "KeyError", text |-> <<>>]
    ELSE [fault |-> "none",
          text |-> Join([k \in 1..Len(names) |-> FormatValue(DictGet(r, names[k]))],
                        COMMA)]

----------------------------------------------------------------------------
(* DataExtractor.extract_data *)

\* Truth value of record_relevant_keys: None and [] are both false
Truthy(o) == ~IsNone(o) /\ Len(Val(o)) > 0

\* file.readline(): '' at the end of the file
ReadLine(f) == IF Len(f) = 0 THEN <<>> ELSE f[1]

\* header = infile.readline().strip().split(',')
Header(f) == Split(Strip(ReadLine(f)), COMMA)

\* The lines the reader iterates over after the header was read
DataLinesOf(f) == IF Len(f) = 0 THEN <<>> ELSE Tail(f)

\* writer.writerow({key: key for key in writer.fieldnames})
HeaderRow(names) ==
    FormatRow(names, ZipDict(names, names)).text

\* self.relevant_keys = {key: [] for key in record_relevant_keys}
RECURSIVE EmptyHarvest(_)
EmptyHarvest(keys) ==
    IF Len(keys) = 0 THEN <<>>
    ELSE DictPut(EmptyHarvest(SubSeq(keys, 1, Len(keys) - 1)),
                 keys[Len(keys)], <<>>)

\* code in self.codes, for a list self.codes
MatchesAll(code, cs) == TRUE
Matches(code, cs) == InSeq(code, cs)

\* for key in record_relevant_keys: if key in row.keys(): ...append(row[key])
RECURSIVE HarvestRow(_, _, _)
HarvestRow(rk, keys, r) ==
    IF Len(keys) = 0 THEN rk
    ELSE LET k == keys[1]
             rk1 == IF DictHas(r, k)
                    THEN DictPut(rk, k, Append(DictGet(rk, k), DictGet(r, k)))
                    ELSE rk
         IN  HarvestRow(rk1, Tail(keys), r)

\* The body of "for row in reader", for one line; st = [out, rk, fault]
RowStep(st, names, text, cs, key, rrk) ==
    LET r == ParseRow(names, text) IN
    IF ~DictHas(r, key)
    THEN [st EXCEPT !.fault = "KeyError"]                \* row[key_column]
    ELSE IF IsNone(cs)
    THEN [st EXCEPT !.fault = "TypeError"]               \* code in None
    ELSE IF ~Matches(DictGet(r, key), Val(cs))
    THEN st
    ELSE LET rk1 == IF Truthy(rrk) THEN HarvestRow(st.rk, Val(rrk), r)
                    ELSE st.rk
             w == FormatRow(names, r)
         IN  IF w.fault # "none"
             THEN [st EXCEPT !.rk = rk1, !.fault = w.fault]
             ELSE [st EXCEPT !.rk = rk1, !.out = Append(st.out, w.text \o <<NL>>)]

RECURSIVE RowLoop(_, _, _, _, _, _)
RowLoop(st, names, lines, cs, key, rrk) ==
    IF Len(lines) = 0 \/ st.fault # "none" THEN st
    ELSE RowLoop(RowStep(st, names, lines[1], cs, key, rrk),
                 names, Tail(lines), cs, key, rrk)

\* return self.relevant_keys if self.relevant_keys else None
ReturnValueNoneWhenAllEmpty(rk) ==
    IF \E j \in 1..Len(rk) : Len(rk[j][2]) > 0 THEN Some(rk) ELSE NoneVal
ReturnValue(rk) == IF Len(rk) > 0 THEN Some(rk) ELSE NoneVal

\* extract_data(input_file, output_file, key_column, record_relevant_keys) on
\* an object with self.codes = cs and self.relevant_keys = rk:
\* [out: the output file, rk: self.relevant_keys afterwards,
\*  ret: the value returned, fault: the exception raised]
ExtractData(cs, rk, f, key, rrk) ==
    LET names == Header(f)
        st0 == [out |-> <<HeaderRow(names) \o <<NL>>>>,
                rk |-> IF Truthy(rrk) THEN EmptyHarvest(Val(rrk)) ELSE rk,
                fault |-> "none"]
        st == RowLoop(st0, names, DataLinesOf(f), cs, key, rrk)
    IN  [out |-> st.out, rk |-> st.rk, fault |-> st.fault,
         ret |-> IF st.fault = "none" THEN ReturnValue(st.rk) ELSE NoneVal]

----------------------------------------------------------------------------
(* DataExtractor.preprocess_data *)

\* The keys of quote_mapping, each a str; every key maps to '"'
QuoteMappingKeys ==
    << <<"'">>, <<"u00E2", "u20AC">>, <<"u201C">>, <<"u201E">>,
       <<"u201D">>, <<DQ>> >>

\* str.maketrans(dict): ValueError unless every str key has length 1
MakeTransFails == \E k \in 1..Len(QuoteMappingKeys) : Len(QuoteMappingKeys[k]) # 1

\* line.translate(table)
Translate(s) ==
    [j \in 1..Len(s) |-> IF InSeq(<<s[j]>>, QuoteMappingKeys) THEN DQ ELSE s[j]]

\* The body of "for file in files" for one file: the table is built once per
\* line, before anything is written back
PreprocessFile(f) ==
    IF Len(f) > 0 /\ MakeTransFails
    THEN [fault |-> "ValueError", file |-> f]
    ELSE [fault |-> "none", file |-> [j \in 1..Len(f) |-> Translate(f[j])]]

\* preprocess_data(files): [files: the files afterwards, fault]
RECURSIVE PreprocessData(_)
PreprocessData(fs) ==
    IF Len(fs) = 0 THEN [fault |-> "none", files |-> <<>>]
    ELSE LET one == PreprocessFile(fs[1]) IN
         IF one.fault # "none"
         THEN [fault |-> one.fault, files |-> fs]
         ELSE LET rest == PreprocessData(Tail(fs))
              IN  [fault |-> rest.fault, files |-> <<one.file>> \o rest.files]

----------------------------------------------------------------------------
(* DataExtractor.read_codes and the constructor *)

\* read_codes(key_column): [codes, fault]
RECURSIVE ReadCodesLoop(_, _, _, _)
ReadCodesLoop(acc, names, lines, key) ==
    IF Len(lines) = 0 THEN [fault |-> "none", codes |-> acc]
    ELSE LET r == ParseRow(names, lines[1]) IN
         IF ~DictHas(r, key) THEN [fault |-> "KeyError", codes |-> acc]
         ELSE ReadCodesLoop(Append(acc, DictGet(r, key)), names, Tail(lines), key)

ReadCodes(f, key) == ReadCodesLoop(<<>>, Header(f), DataLinesOf(f), key)

----------------------------------------------------------------------------
(* Inputs *)

ID == <<"i", "d">>
RG == <<"r", "g">>
ZZ == <<"z", "z">>

HeaderLine == ID \o <<COMMA>> \o RG \o <<NL>>

\* Data lines under the header id,rg: full, short, long, quoted
StageLines ==
    { <<"1", COMMA, "a", NL>>, <<"2", COMMA, "b", NL>>, <<"2", COMMA, "a", NL>>,
      <<"1", NL>>, <<"2", NL>>, <<"1", COMMA, "a", COMMA, "b", NL>>,
      <<DQ, "1", DQ, COMMA, "a", NL>> }

StageFiles == {<<HeaderLine>> \o rows : rows \in SeqsUpTo(StageLines, MaxRows)}

CodeLists == { <<>>, << <<"1">> >>, << <<"2">>, <<"1">> >>, << <<"a">> >>,
               << <<"1">>, <<"1">> >>, << <<DQ, "1", DQ>>, <<"1">> >> }

KeyColumns == {ID, RG, ZZ}

HarvestLists == {NoneVal, Some(<<>>), Some(<<RG>>), Some(<<RG, ID>>), Some(<<ZZ>>)}

\* self.relevant_keys of a fresh object, and one left by an earlier call
StaleHarvest == << <<ID, << <<"9">> >> >> >>

Descriptor(key, rrk) == [key_column |-> key, relevant_keys |-> rrk]

\* The pipeline's files: an empty file, and one with a header and a record
PipeFiles == { <<>>, <<HeaderLine, <<"1", COMMA, "a", NL>> >> }

PipeDescriptors ==
    {Descriptor(k, h) : k \in {ID, RG}, h \in {NoneVal, Some(<<>>), Some(<<RG>>)}}

SampleFiles == { <<ID \o <<NL>> >>, <<ID \o <<NL>>, <<"1", NL>> >> }

\* Reader/writer lines: every text up to MaxLineLen, with or without newline
RWLines ==
    {t \o e : t \in SeqsUpTo({"a", COMMA, DQ}, MaxLineLen), e \in {<<>>, <<NL>>}}

\* Lines of the files handed to preprocess_data
PreLines ==
    { <<"u2019", "h", "u2019", NL>>, <<"'", "h", "'", NL>>,
      <<"u201C", "h", "u201D", NL>>, <<"u201E", "h", DQ, NL>>,
      <<"u00E2", "u20AC", "h", NL>>, <<"h", NL>> }

PreFiles == SeqsUpTo(PreLines, MaxPreLines)

----------------------------------------------------------------------------
(* Reader and writer on one line: next(reader), then writer.writerow *)

InitRW ==
    /\ pc = "rw_parse"
    /\ fault = "none"
    /\ line \in RWLines
    /\ fieldnames \in {<<ID>>, <<ID, RG>>}
    /\ row = <<>>
    /\ formatted = <<>>
    /\ files = <<>> /\ sample_file = <<>> /\ main_key_column = <<>>
    /\ extraction_info = <<>> /\ de_codes = NoneVal /\ de_relevant_keys = <<>>
    /\ codes = NoneVal /\ outputs = <<>> /\ used = <<>> /\ idx = 0

\* SimpleDictReader.__next__
ReaderNext ==
    /\ pc = "rw_parse"
    /\ row' = ParseRow(fieldnames, line)
    /\ pc' = "rw_write"
    /\ UNCHANGED <<fault, line, fieldnames, formatted, files, sample_file,
                   main_key_column, extraction_info, de_codes, de_relevant_keys,
                   codes, outputs, used, idx>>

\* SimpleDictWriter.writerow
WriteRow ==
    /\ pc = "rw_write"
    /\ LET w == FormatRow(fieldnames, row) IN
       /\ fault' = w.fault
       /\ formatted' = IF w.fault = "none" THEN w.text \o <<NL>> ELSE formatted
    /\ pc' = "rw_done"
    /\ UNCHANGED <<line, fieldnames, row, files, sample_file, main_key_column,
                   extraction_info, de_codes, de_relevant_keys, codes, outputs,
                   used, idx>>

NextRW == ReaderNext \/ WriteRow

SpecRW == InitRW /\ [][NextRW]_vars

----------------------------------------------------------------------------
(* DataExtractor.preprocess_data on a list of files *)

InitPre ==
    /\ pc = "pre"
    /\ fault = "none"
    /\ files \in SeqsUpTo(PreFiles, MaxPreFiles)
    /\ line = <<>> /\ fieldnames = <<>> /\ row = <<>> /\ formatted = <<>>
    /\ sample_file = <<>> /\ main_key_column = <<>>
    /\ extraction_info = <<>> /\ de_codes = NoneVal /\ de_relevant_keys = <<>>
    /\ codes = NoneVal /\ outputs = <<>> /\ used = <<>> /\ idx = 0

CallPreprocessData ==
    /\ pc = "pre"
    /\ LET res == PreprocessData(files) IN
       /\ files' = res.files
       /\ fault' = res.fault
    /\ pc' = "pre_done"
    /\ UNCHANGED <<line, fieldnames, row, formatted, sample_file,
                   main_key_column, extraction_info, de_codes, de_relevant_keys,
                   codes, outputs, used, idx>>

NextPre == CallPreprocessData

SpecPre == InitPre /\ [][NextPre]_vars

----------------------------------------------------------------------------
(* One extract_data call on a DataExtractor built without preprocessing *)

InitStage ==
    /\ pc = "stage"
    /\ fault = "none"
    /\ files \in {<<f>> : f \in StageFiles}
    /\ extraction_info \in
           {<<Descriptor(k, h)>> : k \in KeyColumns, h \in HarvestLists}
    /\ de_codes \in {Some(c) : c \in CodeLists}
    /\ de_relevant_keys \in {<<>>, StaleHarvest}
    /\ codes = NoneVal /\ outputs = <<>> /\ used = <<>> /\ idx = 1
    /\ line = <<>> /\ fieldnames = <<>> /\ row = <<>> /\ formatted = <<>>
    /\ sample_file = <<>> /\ main_key_column = <<>>

CallExtractData ==
    /\ pc = "stage"
    /\ LET d == extraction_info[idx]
           res == ExtractData(de_codes, de_relevant_keys, files[idx],
                              d.key_column, d.relevant_keys)
       IN  /\ outputs' = Append(outputs, res.out)
           /\ de_relevant_keys' = res.rk
           /\ codes' = res.ret
           /\ fault' = res.fault
    /\ used' = Append(used, de_codes)
    /\ idx' = idx + 1
    /\ pc' = "stage_done"
    /\ UNCHANGED <<line, fieldnames, row, formatted, files, sample_file,
                   main_key_column, extraction_info, de_codes>>

NextStage == CallExtractData

SpecStage == InitStage /\ [][NextStage]_vars

----------------------------------------------------------------------------
(* process_extraction_info: the constructor, then one stage per iteration. *)
(* Every stage has input and output paths of its own.                      *)

Init ==
    /\ pc = "start"
    /\ fault = "none"
    /\ sample_file \in SampleFiles
    /\ main_key_column = ID
    /\ \E n \in 1..MaxStages :
          /\ extraction_info \in [1..n -> PipeDescriptors]
          /\ files \in [1..n -> PipeFiles]
    /\ de_codes = NoneVal /\ de_relevant_keys = <<>>
    /\ codes = NoneVal /\ outputs = <<>> /\ used = <<>> /\ idx = 1
    /\ line = <<>> /\ fieldnames = <<>> /\ row = <<>> /\ formatted = <<>>

\* DataExtractor(sample_file, main_key_column, preprocess_files=True, files=infiles)
Construct ==
    /\ pc = "start"
    /\ LET pre == PreprocessData(files)
           rc == ReadCodes(sample_file, main_key_column)
       IN  /\ files' = pre.files
           /\ fault' = IF pre.fault # "none" THEN pre.fault ELSE rc.fault
           /\ de_codes' = IF pre.fault = "none" /\ rc.fault = "none"
                          THEN Some(rc.codes) ELSE de_codes
           /\ pc' = IF pre.fault = "none" /\ rc.fault = "none"
                    THEN "loop" ELSE "aborted"
    /\ de_relevant_keys' = <<>>
    /\ codes' = NoneVal
    /\ UNCHANGED <<line, fieldnames, row, formatted, sample_file,
                   main_key_column, extraction_info, outputs, used, idx>>

\* if codes: data_extractor.codes = codes.get(extraction['key_column'])
StageCodesNeverReplaced(last, current, key) == current
StageCodes(last, current, key) ==
    IF Truthy(last) THEN DictGetOpt(Val(last), key) ELSE current

\* One iteration of "for extraction in extraction_info"
RunStage ==
    /\ pc = "loop"
    /\ idx <= Len(extraction_info)
    /\ LET d == extraction_info[idx]
           cs == StageCodes(codes, de_codes, d.key_column)
           res == ExtractData(cs, de_relevant_keys, files[idx],
                              d.key_column, d.relevant_keys)
       IN  /\ de_codes' = cs
           /\ used' = Append(used, cs)
           /\ outputs' = Append(outputs, res.out)
           /\ de_relevant_keys' = res.rk
           /\ codes' = res.ret
           /\ fault' = res.fault
           /\ pc' = IF res.fault # "none" THEN "aborted"
                    ELSE IF idx = Len(extraction_info) THEN "done" ELSE "loop"
    /\ idx' = idx + 1
    /\ UNCHANGED <<line, fieldnames, row, formatted, files, sample_file,
                   main_key_column, extraction_info>>

Next == Construct \/ RunStage

Spec == Init /\ [][Next]_vars

----------------------------------------------------------------------------
(* What the claims speak of, stated on the input text itself *)

\* The values of a data line, split on the delimiter
Values(l) == Split(RStripNL(l), COMMA)

\* The line has a value for field f of the schema
HasField(names, l, f) ==
    \E p \in 1..Len(names) : names[p] = f /\ p <= Len(Values(l))

\* That value (the schema's names are distinct)
FieldOf(names, l, f) ==
    Values(l)[CHOOSE p \in 1..Len(names) : names[p] = f]

\* One value per header field
IsFull(names, l) == Len(Values(l)) = Len(names)

\* The record's key value is in the membership set S (an Optional list)
Selected(names, l, key, S) ==
    /\ ~IsNone(S)
    /\ HasField(names, l, key)
    /\ \E k \in 1..Len(Val(S)) : Val(S)[k] = FieldOf(names, l, key)

\* The writer's quoting rule, per value
QuotedText(v) ==
    IF \E k \in 1..Len(v) : v[k] = DQ THEN v ELSE <<DQ>> \o v \o <<DQ>>

\* The output line of the first n values
WrittenValues(vals, n) ==
    Join([j \in 1..n |-> QuotedText(vals[j])], COMMA) \o <<NL>>

\* What a stage is to write for input f, key column key and membership set S
ExpectedOutput(f, key, S) ==
    LET names == Header(f)
        kept == SelectSeq(DataLinesOf(f), LAMBDA l : Selected(names, l, key, S))
    IN  <<WrittenValues(names, Len(names))>>
        \o [j \in 1..Len(kept) |-> WrittenValues(Values(kept[j]), Len(names))]

\* What a stage is to harvest for field h
ExpectedHarvest(f, key, S, h) ==
    LET names == Header(f)
        kept == SelectSeq(DataLinesOf(f),
                          LAMBDA l : Selected(names, l, key, S)
                                     /\ HasField(names, l, h))
    IN  [j \in 1..Len(kept) |-> FieldOf(names, kept[j], h)]

StageDone == pc = "stage_done"
StageInput == files[1]
StageKey == extraction_info[1].key_column
StageHarvest == extraction_info[1].relevant_keys
StageRows == DataLinesOf(StageInput)
StageNames == Header(StageInput)

----------------------------------------------------------------------------
(* Claims on extract_data, under SpecStage *)

\* C1: for every membership set, every key column that is a header field and
\* every input whose data lines all have one value per header field,
\* extract_data raises nothing and writes the header row followed by exactly
\* the records whose key value is in the set, each once, in input order.
C1_StageFilter ==
    (/\ StageDone
     /\ InSeq(StageKey, StageNames)
     /\ \A k \in 1..Len(StageRows) : IsFull(StageNames, StageRows[k]))
    => /\ fault = "none"
       /\ outputs[1] = ExpectedOutput(StageInput, StageKey, de_codes)

\* A run that keeps one record and drops another
C1_Witness ==
    /\ StageDone
    /\ InSeq(StageKey, StageNames)
    /\ Len(StageRows) = 2
    /\ \A k \in 1..Len(StageRows) : IsFull(StageNames, StageRows[k])
    /\ Selected(StageNames, StageRows[2], StageKey, de_codes)
    /\ ~Selected(StageNames, StageRows[1], StageKey, de_codes)
    /\ Len(outputs[1]) = 2

\* C2: a record without the stage's key column raises no error, is left out
\* of the output, and the remaining records are processed. (Stated for
\* inputs whose other records are full, so that only the absent key column
\* is in play.)
C2_AbsentKeyNeverRaises ==
    (/\ StageDone
     /\ \E k \in 1..Len(StageRows) : ~HasField(StageNames, StageRows[k], StageKey)
     /\ \A k \in 1..Len(StageRows) :
           HasField(StageNames, StageRows[k], StageKey)
               => IsFull(StageNames, StageRows[k]))
    => /\ fault = "none"
       /\ outputs[1] = ExpectedOutput(StageInput, StageKey, de_codes)

\* C6: after a stage that declares harvest fields, the sequence harvested
\* for each field f holds the values r[f] of exactly the records whose key
\* value is in the membership set and that contain f, in input order,
\* duplicates kept, and nothing from before the stage.
C6_HarvestContent ==
    (StageDone /\ Truthy(StageHarvest))
    => \A k \in 1..Len(Val(StageHarvest)) :
          LET h == Val(StageHarvest)[k] IN
          /\ DictHas(de_relevant_keys, h)
          /\ DictGet(de_relevant_keys, h) =
                 ExpectedHarvest(StageInput, StageKey, de_codes, h)

\* The same for the calls that return: what extract_data returns is the
\* harvest C6 describes (holds; the calls that raise are what C6 fails on)
HarvestContentOnReturn ==
    (StageDone /\ Truthy(StageHarvest) /\ fault = "none")
    => \A k \in 1..Len(Val(StageHarvest)) :
          LET h == Val(StageHarvest)[k] IN
          /\ ~IsNone(codes)
          /\ DictHas(Val(codes), h)
          /\ DictGet(Val(codes), h) =
                 ExpectedHarvest(StageInput, StageKey, de_codes, h)

\* C9: a line with fewer values than header fields yields a record without
\* the trailing fields (with more values, without the extras), and a stage
\* over an input with such a short line, every record of which carries the
\* key column, completes without a fault.
C9_SchemaLenience ==
    /\ \A k \in 1..Len(StageRows) :
          LET r == ParseRow(StageNames, StageRows[k]) IN
          \A p \in 1..Len(StageNames) :
              /\ DictHas(r, StageNames[p]) <=> p <= Len(Values(StageRows[k]))
              /\ DictHas(r, StageNames[p])
                     => DictGet(r, StageNames[p]) = Values(StageRows[k])[p]
    /\ (/\ StageDone
        /\ \E k \in 1..Len(StageRows) :
              Len(Values(StageRows[k])) < Len(StageNames)
        /\ \A k \in 1..Len(StageRows) :
              HasField(StageNames, StageRows[k], StageKey))
       => fault = "none"

----------------------------------------------------------------------------
(* Claim on preprocess_data, under SpecPre *)

\* The characters the claim calls quote-like
QuoteLike == {"'", "u2018", "u2019", "u201C", "u201D", "u201E", DQ}

\* A line with every quote-like character, and the two-character mojibake
\* sequence, replaced by a straight double quote
RECURSIVE Normalized(_)
Normalized(s) ==
    IF Len(s) = 0 THEN <<>>
    ELSE IF Len(s) >= 2 /\ s[1] = "u00E2" /\ s[2] = "u20AC"
    THEN <<DQ>> \o Normalized(SubSeq(s, 3, Len(s)))
    ELSE <<IF s[1] \in QuoteLike THEN DQ ELSE s[1]>> \o Normalized(Tail(s))

\* C7: preprocess_data completes on every list of readable files and leaves
\* each file with the same lines in the same order, every quote-like
\* character replaced by a straight double quote and the rest unchanged.
C7_QuoteNormalization ==
    [][pc = "pre" =>
          /\ fault' = "none"
          /\ files' = [k \in 1..Len(files) |->
                          [j \in 1..Len(files[k]) |-> Normalized(files[k][j])]]
      ]_vars

----------------------------------------------------------------------------
(* Claim on the reader and the writer, under SpecRW *)

Min(a, b) == IF a < b THEN a ELSE b

\* C8: parsing a line and writing the record over the same schema gives the
\* line's values in schema order, each in one pair of quotes, except the
\* values that contain a quote character, which are written as they are.
C8_RoundTrip ==
    pc = "rw_done"
    => /\ fault = "none"
       /\ formatted = WrittenValues(Values(line),
                                    Min(Len(fieldnames), Len(Values(line))))

\* The same for the lines with a value for every field of the schema (holds;
\* the shorter lines are what C8 fails on)
RoundTripOnFullLines ==
    (pc = "rw_done" /\ Len(Values(line)) >= Len(fieldnames))
    => /\ fault = "none"
       /\ formatted = WrittenValues(Values(line), Len(fieldnames))

----------------------------------------------------------------------------
(* Claims on process_extraction_info, under Spec *)

\* Stage i has returned (it ran, and it did not raise)
Completed(i) == i < Len(used) \/ (i = Len(used) /\ fault = "none")

\* C3: when the harvest map the previous stage returned does not contain
\* the next stage's key column, the next stage raises and the pipeline
\* stops there, whatever that stage's input file holds.
C3_UnresolvableKeySignaled ==
    [][(/\ pc = "loop"
        /\ Truthy(codes)
        /\ ~DictHas(Val(codes), extraction_info[idx].key_column))
       => (fault' # "none" /\ pc' = "aborted")
      ]_vars

\* C4: a stage that declares no harvest fields leaves the next stage the
\* membership set it used itself, after any earlier stages.
C4_CarryForward ==
    \A i \in 1..Len(used) :
        (i < Len(used) /\ ~Truthy(extraction_info[i].relevant_keys))
        => used[i + 1] = used[i]

NoneSelected(i) ==
    \A k \in 1..Len(DataLinesOf(files[i])) :
        ~Selected(Header(files[i]), DataLinesOf(files[i])[k],
                  extraction_info[i].key_column, used[i])

\* C10: a stage that declares harvest fields and matches no record returns
\* a map of empty sequences, not None; the next stage, keyed on a field of
\* that map, filters against the empty sequence instead of the previous
\* set, and writes its header row only.
C10_EmptyHarvestReplaces ==
    \A i \in 1..Len(used) :
        (/\ Truthy(extraction_info[i].relevant_keys)
         /\ NoneSelected(i)
         /\ Completed(i))
        => /\ i = Len(used) =>
                 /\ ~IsNone(codes)
                 /\ \A k \in 1..Len(Val(extraction_info[i].relevant_keys)) :
                       LET h == Val(extraction_info[i].relevant_keys)[k] IN
                       DictHas(Val(codes), h) /\ DictGet(Val(codes), h) = <<>>
           /\ (/\ i < Len(used)
               /\ InSeq(extraction_info[i + 1].key_column,
                        Val(extraction_info[i].relevant_keys)))
              => /\ used[i + 1] = Some(<<>>)
                 /\ Len(outputs[i + 1]) = 1

\* A first stage that used a non-empty seed set and harvested nothing,
\* followed by a completed stage that wrote its header row only
C10_Witness ==
    /\ pc = "done"
    /\ Len(used) = 2
    /\ used[1] = Some(<< <<"1">> >>)
    /\ Truthy(extraction_info[1].relevant_keys)
    /\ NoneSelected(1)
    /\ InSeq(extraction_info[2].key_column, Val(extraction_info[1].relevant_keys))
    /\ used[2] = Some(<<>>)
    /\ Len(outputs[2]) = 1

====
